---- MODULE Spec2Model ----
(***************************************************************************)
(* State-machine model of the miner_registrations tool suite.              *)
(*                                                                         *)
(*   Spec           miner_registration: register_hotkey (main.rs)          *)
(*   SpecEstimator  shared: estimate_block_time (lib.rs)                   *)
(*                                                                         *)
(* register_hotkey is modelled between its await points.  Wall-clock time  *)
(* passes independently of the program (Tick), so every await resolves     *)
(* after an arbitrary latency.  The program never reads an Instant other   *)
(* than through elapsed(), so the model keeps, for every Instant, the      *)
(* value elapsed() would return, in whole seconds and saturated at         *)
(* TimeCap (every value above 12 s is treated alike by the code).          *)
(***************************************************************************)
EXTENDS Integers, Sequences, FiniteSets, TLC

(***************************************************************************)
(* Bounds of the model                                                     *)
(***************************************************************************)
TimeCap == 14          \* elapsed times saturate here (seconds)
MaxBlocks == 3         \* finalized heads the chain produces
MaxBuffered == 2       \* items the subscription may hold unconsumed
MaxCostParam == 1      \* params.max_cost ranges over 0..MaxCostParam
MaxBurn == 2           \* the Burn storage value ranges over 0..MaxBurn
MaxAttempts == 3       \* submissions register_subnet may issue
MaxNumBlocks == 3      \* cli.num_blocks ranges over 1..MaxNumBlocks

(***************************************************************************)
(* Program constants                                                       *)
(***************************************************************************)
RATE_LIMIT_SECS == 12  \* Duration::from_secs(12)
COST_SKIP_SECS == 1    \* Duration::from_secs(1)
max_retries == 5       \* let max_retries = 5
RETRY_SLEEP_SECS == 5  \* sleep(Duration::from_secs(5))

VARIABLES
    pc,                   \* position of register_hotkey
    result,               \* "Running", "Ok", "Panic" or an error
    coldkey_ok,           \* params.coldkey parses
    hotkey_ok,            \* params.hotkey parses
    max_cost,             \* params.max_cost
    connected,            \* OnlineClient::from_url was called
    heads,                \* items buffered by the finalized subscription
    chain_head,           \* number of the latest finalized block
    stream_open,          \* the subscription can still receive items
    last_attempt_elapsed, \* last_attempt.elapsed()
    last_attempt_guard,   \* the last_attempt mutex guard is alive
    loops,                \* *loops
    block_number,         \* block_number of the latest tick
    recycle_cost,         \* recycle_cost of the current tick, -1: not read
    sleep_left,           \* time until the pending tokio sleep may end
    in_flight,            \* submissions issued and not yet resolved
    watch,                \* state of the latest finalization watch
    submissions,          \* history: number of submissions issued
    since_submit,         \* history: time since the latest submission
    last_gap,             \* history: time between the two latest
                          \* submissions, -1 while there are fewer
    stream_end_seen,      \* history: blocks.next() yielded None
    last_cost_err,        \* history: error of the latest get_recycle_cost
                          \* call, "" when it was Ok or never called
    skips,                \* history: ticks ended by the cost gate
    consumed,             \* history: block numbers of the heads consumed
    cost_tick,            \* history: value of *loops at the latest Ok
                          \* cost read, 0 before the first
    shutdown,             \* a shutdown signal reached the process:
                          \* "none", "ignored" or "killed"
    \* ---- shared::estimate_block_time (times in milliseconds) ----
    est_pc,               \* position of estimate_block_time
    block_interval,       \* the chain finalizes a block every so often,
                          \* 0: finalization never advances
    elapsed,              \* start_time.elapsed()
    start_block_number,   \* start_header.number
    target_block_number,  \* start_block_number + SAMPLE_SIZE
    header_number,        \* header.number of the latest poll
    polls,                \* history: evaluations of the loop condition
    warned,               \* the "hit the bounds" warning was logged
    est_result,           \* what estimate_block_time returned
    \* ---- register_subnet (times in milliseconds) ----
    sn_pc,                \* position of register_subnet
    sn_result,            \* "Running", "Ok" or an error
    sn_coldkey_ok,        \* params.coldkey parses
    sn_connected,         \* OnlineClient::from_url was called
    monitor_spawned,      \* the monitor_pending_extrinsics task runs
    sn_block_time,        \* estimated_block_time, 0 before it is bound
    sn_in_flight,         \* submissions issued and not yet resolved
    sn_submit,            \* outcome of the latest sign_and_submit_then_watch
    sn_watch,             \* outcome of the latest finalization watch
    sn_submissions,       \* history: number of submissions issued
    sn_failures,          \* history: number of attempts that failed
    sn_since_submit,      \* history: time since the latest submission
    sn_last_gap,          \* history: time between the two latest
                          \* submissions, -1 while there are fewer
    \* ---- subtensor_analysis (times in seconds) ----
    an_pc,                \* position of main / collect_data
    an_result,            \* "Running", "Ok", "Panic" or an error
    num_blocks,           \* cli.num_blocks
    retry_count,          \* retry_count
    analyzer,             \* analyzer is Some(_)
    an_attempts,          \* history: calls of SubtensorAnalyzer::new
    an_sleeps,            \* history: seconds slept between attempts
    iteration,            \* iterations of `for _ in 0..num_blocks` done
    an_now,               \* Instant::now() since collect_data started
    last_block_time,      \* last_block_time, -1 for None
    block_numbers,        \* the vector block_numbers
    block_times,          \* the vector block_times
    pending_extrinsics_counts, \* the vector pending_extrinsics_counts
    block_weights,        \* the vector block_weights
    received,             \* history: the blocks received, in order
    stored                \* block_data.parquet was written

minerVars == <<pc, result, coldkey_ok, hotkey_ok, max_cost, connected,
               heads, chain_head, stream_open, last_attempt_elapsed,
               last_attempt_guard, loops, block_number, recycle_cost,
               sleep_left, in_flight, watch, submissions, since_submit,
               last_gap, stream_end_seen, last_cost_err, skips, consumed,
               cost_tick, shutdown>>

estVars == <<est_pc, block_interval, elapsed, start_block_number,
             target_block_number, header_number, polls, warned, est_result>>

subnetVars == <<sn_pc, sn_result, sn_coldkey_ok, sn_connected,
                monitor_spawned, sn_block_time, sn_in_flight,
                sn_submit, sn_watch, sn_submissions, sn_failures,
                sn_since_submit, sn_last_gap>>

anVars == <<an_pc, an_result, num_blocks, retry_count, analyzer,
            an_attempts, an_sleeps, iteration, an_now, last_block_time,
            block_numbers, block_times, pending_extrinsics_counts,
            block_weights, received, stored>>

vars == <<minerVars, estVars, subnetVars, anVars>>

Min(a, b) == IF a < b THEN a ELSE b

Max(a, b) == IF a < b THEN b ELSE a

(***************************************************************************)
(* register_hotkey                                                         *)
(***************************************************************************)
ErrConnect == "Err(from_url)"
ErrColdkey == "Err(Invalid coldkey)"
ErrHotkey == "Err(Invalid hotkey)"
ErrSubscribe == "Err(subscribe_finalized)"
ErrBlock == "Err(block)"
ErrCostRpc == "Err(get_recycle_cost: rpc)"
ErrCostAbsent == "Err(Burn value not found for the given netuid)"
ErrCostDecode == "Err(get_recycle_cost: as_type)"
ErrSubmit == "Err(sign_and_submit_then_watch)"
ErrJoin == "Err(JoinError)"

\* Outcomes of get_recycle_cost other than Ok(burn_cost).
CostErrors == {ErrCostRpc, ErrCostAbsent, ErrCostDecode}

\* Outcomes of get_recycle_cost: Ok(cost) has err = "".
CostOutcomes ==
    {[err |-> e, cost |-> 0] : e \in CostErrors}
        \cup {[err |-> "", cost |-> c] : c \in 0..MaxBurn}

Params ==
    /\ coldkey_ok \in BOOLEAN
    /\ hotkey_ok \in BOOLEAN
    /\ max_cost \in 0..MaxCostParam

MinerInit ==
    /\ Params
    /\ pc = "Connect"
    /\ result = "Running"
    /\ connected = FALSE
    /\ heads = <<>>
    /\ chain_head = 0
    /\ stream_open = FALSE
    /\ last_attempt_elapsed = 0
    /\ last_attempt_guard = FALSE
    /\ loops = 0
    /\ block_number = 0
    /\ recycle_cost = -1
    /\ sleep_left = 0
    /\ in_flight = 0
    /\ watch = "none"
    /\ submissions = 0
    /\ since_submit = 0
    /\ last_gap = -1
    /\ stream_end_seen = FALSE
    /\ last_cost_err = ""
    /\ skips = 0
    /\ consumed = <<>>
    /\ cost_tick = 0
    /\ shutdown = "none"

paramVars == <<coldkey_ok, hotkey_ok, max_cost>>
streamVars == <<heads, chain_head, stream_open>>
tickVars == <<loops, block_number, recycle_cost>>
submitVars == <<in_flight, watch, submissions, since_submit, last_gap>>
histVars == <<stream_end_seen, last_cost_err, skips, consumed, cost_tick,
              shutdown>>
lockVars == <<last_attempt_elapsed, last_attempt_guard>>

\* `return` / `?` out of register_hotkey: the locals are dropped.
Return(r) ==
    /\ pc' = "Returned"
    /\ result' = r
    /\ last_attempt_guard' = FALSE
    /\ recycle_cost' = -1

\* One second of wall-clock time passes while register_hotkey runs: every
\* elapsed() grows by one and a pending sleep gets one second closer.
Tick ==
    /\ pc \notin {"Connect", "Subscribe", "Returned"}
    /\ last_attempt_elapsed' = Min(last_attempt_elapsed + 1, TimeCap)
    /\ since_submit' = IF submissions = 0 THEN 0
                       ELSE Min(since_submit + 1, TimeCap)
    /\ sleep_left' = Max(sleep_left - 1, 0)
    /\ UNCHANGED <<pc, result, paramVars, connected, streamVars,
                   last_attempt_guard, tickVars, in_flight, watch,
                   submissions, last_gap>>
    /\ UNCHANGED <<histVars, estVars, subnetVars, anVars>>

\* line 61: OnlineClient::from_url(&params.chain_endpoint).await?
\* lines 64-69: both seeds are parsed once the client is connected.
Connect(ok) ==
    /\ pc = "Connect"
    /\ connected' = TRUE
    /\ IF ~ok THEN Return(ErrConnect)
       ELSE IF ~coldkey_ok THEN Return(ErrColdkey)
       ELSE IF ~hotkey_ok THEN Return(ErrHotkey)
       ELSE /\ pc' = "Subscribe"
            /\ UNCHANGED <<result, last_attempt_guard, recycle_cost>>
    /\ UNCHANGED <<paramVars, streamVars, last_attempt_elapsed, loops,
                   block_number, sleep_left, submitVars>>
    /\ UNCHANGED <<histVars, estVars, subnetVars, anVars>>

\* line 71: client.blocks().subscribe_finalized().await?
\* lines 72-73: last_attempt = Instant::now(), loops = 0
Subscribe(ok) ==
    /\ pc = "Subscribe"
    /\ IF ~ok
       THEN /\ Return(ErrSubscribe)
            /\ UNCHANGED <<stream_open, last_attempt_elapsed, loops>>
       ELSE /\ pc' = "AwaitingHead"
            /\ stream_open' = TRUE
            /\ last_attempt_elapsed' = 0
            /\ loops' = 0
            /\ UNCHANGED <<result, last_attempt_guard, recycle_cost>>
    /\ UNCHANGED <<paramVars, connected, heads, chain_head, block_number,
                   sleep_left, submitVars>>
    /\ UNCHANGED <<histVars, estVars, subnetVars, anVars>>

\* The chain finalizes a block and the subscription buffers its header.
HeadArrives ==
    /\ stream_open
    /\ pc # "Returned"
    /\ chain_head < MaxBlocks
    /\ Len(heads) < MaxBuffered
    /\ chain_head' = chain_head + 1
    /\ heads' = Append(heads, [err |-> FALSE, number |-> chain_head + 1])
    /\ UNCHANGED <<pc, result, paramVars, connected, stream_open, lockVars,
                   tickVars, sleep_left, submitVars>>
    /\ UNCHANGED <<histVars, estVars, subnetVars, anVars>>

\* The subscription receives an error as its last item.
StreamFails ==
    /\ stream_open
    /\ pc # "Returned"
    /\ Len(heads) < MaxBuffered
    /\ heads' = Append(heads, [err |-> TRUE, number |-> 0])
    /\ stream_open' = FALSE
    /\ UNCHANGED <<pc, result, paramVars, connected, chain_head, lockVars,
                   tickVars, sleep_left, submitVars>>
    /\ UNCHANGED <<histVars, estVars, subnetVars, anVars>>

\* The subscription ends: after the buffered items next() yields None.
StreamCloses ==
    /\ stream_open
    /\ pc # "Returned"
    /\ stream_open' = FALSE
    /\ UNCHANGED <<pc, result, paramVars, connected, heads, chain_head,
                   lockVars, tickVars, sleep_left, submitVars>>
    /\ UNCHANGED <<histVars, estVars, subnetVars, anVars>>

\* The loop taking only the newest buffered item and dropping the rest.
NextHead_Latest ==
    /\ pc = "AwaitingHead"
    /\ IF heads = <<>>
       THEN /\ ~stream_open
            /\ Return("Ok")
            /\ stream_end_seen' = TRUE
            /\ UNCHANGED <<heads, loops, block_number, consumed>>
       ELSE IF heads[Len(heads)].err
       THEN /\ Return(ErrBlock)
            /\ heads' = <<>>
            /\ UNCHANGED <<loops, block_number, stream_end_seen, consumed>>
       ELSE /\ pc' = "CheckingCost"
            /\ heads' = <<>>
            /\ block_number' = heads[Len(heads)].number
            /\ consumed' = Append(consumed, heads[Len(heads)].number)
            /\ loops' = loops + 1
            /\ UNCHANGED <<result, last_attempt_guard, recycle_cost,
                           stream_end_seen>>
    /\ UNCHANGED <<paramVars, connected, chain_head, stream_open,
                   last_attempt_elapsed, sleep_left, submitVars>>
    /\ UNCHANGED <<last_cost_err, skips, cost_tick, shutdown, estVars,
                   subnetVars, anVars>>

\* The counter incremented for every item of the stream, errors included.
NextHead_CountsErrors ==
    /\ pc = "AwaitingHead"
    /\ IF heads = <<>>
       THEN /\ ~stream_open
            /\ Return("Ok")
            /\ stream_end_seen' = TRUE
            /\ UNCHANGED <<heads, loops, block_number, consumed>>
       ELSE IF Head(heads).err
       THEN /\ Return(ErrBlock)
            /\ heads' = Tail(heads)
            /\ loops' = loops + 1
            /\ UNCHANGED <<block_number, stream_end_seen, consumed>>
       ELSE /\ pc' = "CheckingCost"
            /\ heads' = Tail(heads)
            /\ block_number' = Head(heads).number
            /\ consumed' = Append(consumed, Head(heads).number)
            /\ loops' = loops + 1
            /\ UNCHANGED <<result, last_attempt_guard, recycle_cost,
                           stream_end_seen>>
    /\ UNCHANGED <<paramVars, connected, chain_head, stream_open,
                   last_attempt_elapsed, sleep_left, submitVars>>
    /\ UNCHANGED <<last_cost_err, skips, cost_tick, shutdown, estVars,
                   subnetVars, anVars>>

\* lines 82-96: blocks.next().await resolves.
\*   None          -> the while-let ends, line 165 returns Ok(())
\*   Some(Err(e))  -> `block?` returns the error
\*   Some(Ok(b))   -> loops += 1, then get_recycle_cost is awaited
NextHead ==
    /\ pc = "AwaitingHead"
    /\ IF heads = <<>>
       THEN /\ ~stream_open
            /\ Return("Ok")
            /\ stream_end_seen' = TRUE
            /\ UNCHANGED <<heads, loops, block_number, consumed>>
       ELSE IF Head(heads).err
       THEN /\ Return(ErrBlock)
            /\ heads' = Tail(heads)
            /\ UNCHANGED <<loops, block_number, stream_end_seen, consumed>>
       ELSE /\ pc' = "CheckingCost"
            /\ heads' = Tail(heads)
            /\ block_number' = Head(heads).number
            /\ consumed' = Append(consumed, Head(heads).number)
            /\ loops' = loops + 1
            /\ UNCHANGED <<result, last_attempt_guard, recycle_cost,
                           stream_end_seen>>
    /\ UNCHANGED <<paramVars, connected, chain_head, stream_open,
                   last_attempt_elapsed, sleep_left, submitVars>>
    /\ UNCHANGED <<last_cost_err, skips, cost_tick, shutdown, estVars,
                   subnetVars, anVars>>

\* The cost gate with the comparison inverted.
ExceedsMaxCost_Inverted(cost, max) == cost < max

\* The cost gate with max_cost excluded.
ExceedsMaxCost_Inclusive(cost, max) == cost >= max

\* line 105: the cost gate.
ExceedsMaxCost(cost, max) == cost > max

\* get_recycle_cost with an absent Burn entry handled like a cost above
\* max_cost: the tick is skipped and the loop goes on.
CostRead_AbsentSkips(outcome) ==
    /\ pc = "CheckingCost"
    /\ last_cost_err' = outcome.err
    /\ IF outcome.err \notin {"", ErrCostAbsent}
       THEN /\ Return(outcome.err)
            /\ UNCHANGED <<sleep_left, submitVars, skips, cost_tick>>
       ELSE IF outcome.err = ErrCostAbsent
       THEN /\ pc' = "CostSleep"
            /\ sleep_left' = COST_SKIP_SECS
            /\ skips' = skips + 1
            /\ UNCHANGED <<result, last_attempt_guard, recycle_cost,
                           submitVars, cost_tick>>
       ELSE /\ recycle_cost' = outcome.cost
            /\ cost_tick' = loops
            /\ UNCHANGED <<result, last_attempt_guard>>
            /\ IF ExceedsMaxCost(outcome.cost, max_cost)
               THEN /\ pc' = "CostSleep"
                    /\ sleep_left' = COST_SKIP_SECS
                    /\ skips' = skips + 1
                    /\ UNCHANGED submitVars
               ELSE /\ pc' = "Submitting"
                    /\ in_flight' = in_flight + 1
                    /\ watch' = "none"
                    /\ submissions' = submissions + 1
                    /\ since_submit' = 0
                    /\ last_gap' = IF submissions = 0 THEN -1 ELSE since_submit
                    /\ UNCHANGED <<sleep_left, skips>>
    /\ UNCHANGED <<paramVars, connected, streamVars, last_attempt_elapsed,
                   loops, block_number>>
    /\ UNCHANGED <<stream_end_seen, consumed, shutdown, estVars, subnetVars, anVars>>

\* lines 98-131: get_recycle_cost(..).await? resolves with `outcome`.
\*   Err(e)            -> `?` returns the error
\*   cost > max_cost   -> warn, sleep 1 s
\*   otherwise         -> the submit task is spawned and joined
CostRead(outcome) ==
    /\ pc = "CheckingCost"
    /\ last_cost_err' = outcome.err
    /\ IF outcome.err # ""
       THEN /\ Return(outcome.err)
            /\ UNCHANGED <<sleep_left, submitVars, skips, cost_tick>>
       ELSE /\ recycle_cost' = outcome.cost
            /\ cost_tick' = loops
            /\ UNCHANGED <<result, last_attempt_guard>>
            /\ IF ExceedsMaxCost(outcome.cost, max_cost)
               THEN /\ pc' = "CostSleep"
                    /\ sleep_left' = COST_SKIP_SECS
                    /\ skips' = skips + 1
                    /\ UNCHANGED submitVars
               ELSE /\ pc' = "Submitting"
                    /\ in_flight' = in_flight + 1
                    /\ watch' = "none"
                    /\ submissions' = submissions + 1
                    /\ since_submit' = 0
                    /\ last_gap' = IF submissions = 0 THEN -1 ELSE since_submit
                    /\ UNCHANGED <<sleep_left, skips>>
    /\ UNCHANGED <<paramVars, connected, streamVars, last_attempt_elapsed,
                   loops, block_number>>
    /\ UNCHANGED <<stream_end_seen, consumed, shutdown, estVars, subnetVars, anVars>>

\* The 1 s sleep of a skipped tick never awaited.
CostSleepDone_NotAwaited ==
    /\ pc = "CostSleep"
    /\ pc' = "AwaitingHead"
    /\ recycle_cost' = -1
    /\ UNCHANGED <<result, paramVars, connected, streamVars, lockVars, loops,
                   block_number, sleep_left, submitVars>>
    /\ UNCHANGED <<histVars, estVars, subnetVars, anVars>>

\* A skipped tick that sets last_attempt like the backoff does.
CostSleepDone_ResetsLastAttempt ==
    /\ pc = "CostSleep"
    /\ sleep_left = 0
    /\ pc' = "AwaitingHead"
    /\ recycle_cost' = -1
    /\ last_attempt_elapsed' = 0
    /\ UNCHANGED <<result, paramVars, connected, streamVars,
                   last_attempt_guard, loops, block_number, sleep_left,
                   submitVars>>
    /\ UNCHANGED <<histVars, estVars, subnetVars, anVars>>

\* lines 110-111: the 1 s sleep of a skipped tick is over; `continue`.
CostSleepDone ==
    /\ pc = "CostSleep"
    /\ sleep_left = 0
    /\ pc' = "AwaitingHead"
    /\ recycle_cost' = -1
    /\ UNCHANGED <<result, paramVars, connected, streamVars, lockVars, loops,
                   block_number, sleep_left, submitVars>>
    /\ UNCHANGED <<histVars, estVars, subnetVars, anVars>>

\* The join of the submit task without the wait for finalization: the
\* loop goes on to the next head while the watch is unresolved.
SubmitJoined_NoWait(outcome) ==
    /\ pc = "Submitting"
    /\ IF outcome = "ok"
       THEN /\ pc' = "AwaitingHead"
            /\ watch' = "pending"
            /\ recycle_cost' = -1
            /\ UNCHANGED <<result, last_attempt_guard, in_flight>>
       ELSE /\ Return(IF outcome = "join_error" THEN ErrJoin ELSE ErrSubmit)
            /\ in_flight' = in_flight - 1
            /\ UNCHANGED watch
    /\ UNCHANGED <<paramVars, connected, streamVars, last_attempt_elapsed,
                   loops, block_number, sleep_left, submissions, since_submit,
                   last_gap>>
    /\ UNCHANGED <<histVars, estVars, subnetVars, anVars>>

\* lines 125-137: the spawned sign_and_submit_then_watch task is joined.
\*   "join_error"   -> outer `?` (the task panicked or was cancelled)
\*   "submit_error" -> inner `?` (transport, nonce or pool rejection)
\*   "ok"           -> wait_for_finalized_success is awaited
SubmitJoined(outcome) ==
    /\ pc = "Submitting"
    /\ IF outcome = "ok"
       THEN /\ pc' = "AwaitingFinalization"
            /\ watch' = "pending"
            /\ UNCHANGED <<result, last_attempt_guard, recycle_cost, in_flight>>
       ELSE /\ Return(IF outcome = "join_error" THEN ErrJoin ELSE ErrSubmit)
            /\ in_flight' = in_flight - 1
            /\ UNCHANGED watch
    /\ UNCHANGED <<paramVars, connected, streamVars, last_attempt_elapsed,
                   loops, block_number, sleep_left, submissions, since_submit,
                   last_gap>>
    /\ UNCHANGED <<histVars, estVars, subnetVars, anVars>>

\* The watch outcome handled without the `break`: a successful
\* finalization is followed by the rate limiting like a failed one.
FinalizationResolved_NoBreak(ok) ==
    /\ pc = "AwaitingFinalization"
    /\ in_flight' = in_flight - 1
    /\ watch' = IF ok THEN "ok" ELSE "err"
    /\ UNCHANGED result
    /\ IF last_attempt_elapsed < RATE_LIMIT_SECS
       THEN /\ pc' = "RateLimit"
            /\ last_attempt_guard' = TRUE
            /\ UNCHANGED <<last_attempt_elapsed, recycle_cost>>
       ELSE /\ pc' = "AwaitingHead"
            /\ last_attempt_elapsed' = 0
            /\ last_attempt_guard' = FALSE
            /\ recycle_cost' = -1
    /\ UNCHANGED <<paramVars, connected, streamVars, loops, block_number,
                   sleep_left, submissions, since_submit, last_gap>>
    /\ UNCHANGED <<histVars, estVars, subnetVars, anVars>>

\* lines 137-162: wait_for_finalized_success().await resolves.
\*   Ok(events) -> break, line 165 returns Ok(())
\*   Err(e)     -> error!, then rate limiting: the last_attempt lock is
\*                 taken (nobody else holds it) and elapsed() is compared
\*                 with 12 s; when 12 s or more have passed there is no
\*                 sleep, last_attempt is set and the guard dropped.
FinalizationResolved(ok) ==
    /\ pc = "AwaitingFinalization"
    /\ in_flight' = in_flight - 1
    /\ IF ok
       THEN /\ watch' = "ok"
            /\ Return("Ok")
            /\ UNCHANGED last_attempt_elapsed
       ELSE /\ watch' = "err"
            /\ UNCHANGED result
            /\ IF last_attempt_elapsed < RATE_LIMIT_SECS
               THEN /\ pc' = "RateLimit"
                    /\ last_attempt_guard' = TRUE
                    /\ UNCHANGED <<last_attempt_elapsed, recycle_cost>>
               ELSE /\ pc' = "AwaitingHead"
                    /\ last_attempt_elapsed' = 0
                    /\ last_attempt_guard' = FALSE
                    /\ recycle_cost' = -1
    /\ UNCHANGED <<paramVars, connected, streamVars, loops, block_number,
                   sleep_left, submissions, since_submit, last_gap>>
    /\ UNCHANGED <<histVars, estVars, subnetVars, anVars>>

\* line 160: Duration::from_secs(12) - last_attempt_guard.elapsed() is
\* computed from a second reading of the clock, then the sleep starts.
\* Duration's `-` panics when the result would be negative.
RateLimitRemainder ==
    /\ pc = "RateLimit"
    /\ IF last_attempt_elapsed > RATE_LIMIT_SECS
       THEN Return("Panic") /\ UNCHANGED sleep_left
       ELSE /\ pc' = "RateLimitSleep"
            /\ sleep_left' = RATE_LIMIT_SECS - last_attempt_elapsed
            /\ UNCHANGED <<result, last_attempt_guard, recycle_cost>>
    /\ UNCHANGED <<paramVars, connected, streamVars, last_attempt_elapsed,
                   loops, block_number, submitVars>>
    /\ UNCHANGED <<histVars, estVars, subnetVars, anVars>>

\* The rate-limit sleep never awaited: the loop goes on at once.
RateLimitSleepDone_NotAwaited ==
    /\ pc = "RateLimitSleep"
    /\ pc' = "AwaitingHead"
    /\ last_attempt_elapsed' = 0
    /\ last_attempt_guard' = FALSE
    /\ recycle_cost' = -1
    /\ sleep_left' = 0
    /\ UNCHANGED <<result, paramVars, connected, streamVars, loops,
                   block_number, submitVars>>
    /\ UNCHANGED <<histVars, estVars, subnetVars, anVars>>

\* lines 160-163: the sleep is over, *last_attempt_guard = Instant::now(),
\* and the guard is dropped at the end of the loop body.
RateLimitSleepDone ==
    /\ pc = "RateLimitSleep"
    /\ sleep_left = 0
    /\ pc' = "AwaitingHead"
    /\ last_attempt_elapsed' = 0
    /\ last_attempt_guard' = FALSE
    /\ recycle_cost' = -1
    /\ UNCHANGED <<result, paramVars, connected, streamVars, loops,
                   block_number, sleep_left, submitVars>>
    /\ UNCHANGED <<histVars, estVars, subnetVars, anVars>>

\* lines 203-221: main awaits register_hotkey and nothing else; no signal
\* handler is installed and no await is raced against a shutdown future.
\* A SIGINT or SIGTERM therefore takes its default course: the process is
\* terminated where it stands (nothing is logged, nothing returned, a
\* submitted extrinsic stays in the pool), or, where the default action
\* does not apply (pid 1 of a container), the signal has no effect.
ShutdownSignal(outcome) ==
    /\ pc # "Returned"
    /\ shutdown = "none"
    /\ shutdown' = outcome
    /\ IF outcome = "killed"
       THEN /\ pc' = "Returned"
            /\ result' = "Killed"
       ELSE UNCHANGED <<pc, result>>
    /\ UNCHANGED <<paramVars, connected, streamVars, lockVars, tickVars,
                   sleep_left, submitVars>>
    /\ UNCHANGED <<stream_end_seen, last_cost_err, skips, consumed,
                   cost_tick, estVars, subnetVars, anVars>>

MinerNext ==
    \/ Tick
    \/ \E ok \in BOOLEAN : Connect(ok)
    \/ \E ok \in BOOLEAN : Subscribe(ok)
    \/ HeadArrives
    \/ StreamFails
    \/ StreamCloses
    \/ NextHead
    \/ \E outcome \in CostOutcomes : CostRead(outcome)
    \/ CostSleepDone
    \/ \E outcome \in {"ok", "submit_error", "join_error"} : SubmitJoined(outcome)
    \/ \E ok \in BOOLEAN : FinalizationResolved(ok)
    \/ RateLimitRemainder
    \/ RateLimitSleepDone

(***************************************************************************)
(* estimate_block_time                                                     *)
(***************************************************************************)
BASE_BLOCK_TIME == 12000
MAX_BLOCK_TIME == 60000
SAMPLE_SIZE == 10
MAX_WAIT_TIME == 120000
POLL_INTERVAL == 100

ErrRpc == "subxt error"
ErrStartHeader == "Other error: Start block header not found"
ErrHeader == "Other error: Block header not found"
ExceededMaxWaitTime == "Exceeded maximum wait time for block sampling"

\* Synthetic block streams: time between two finalized blocks, 0 for a
\* backend whose finalization never advances.
BlockIntervals == {0, 1000, 8000, 12000, 75000}

\* Time one round of RPC reads (block ref, then header) may take: prompt,
\* slow, or stalled (the reads carry no timeout).
RpcLatencies == {0, 200000, 700000}

RpcOutcomes == {"ok", "rpc_error", "header_missing"}

Running == [status |-> "Running", duration |-> 0, err |-> ""]

Ok(d) == [status |-> "Ok", duration |-> d, err |-> ""]

Err(e) == [status |-> "Err", duration |-> 0, err |-> e]

\* Number of the latest finalized block once `t` has elapsed.
ChainNumber(t) == IF block_interval = 0 THEN 0 ELSE t \div block_interval

\* A clamp that applies the lower bound only.
Clamp_LowerOnly(v, lo, hi) == IF v < lo THEN lo ELSE v

\* A clamp that applies the upper bound only.
Clamp_UpperOnly(v, lo, hi) == IF v > hi THEN hi ELSE v

\* Duration::clamp(min, max)
Clamp(v, lo, hi) == IF v < lo THEN lo ELSE IF v > hi THEN hi ELSE v

\* The timeout test with >= for >.
WaitExceeded_Inclusive(t) == t >= MAX_WAIT_TIME

\* line 69: start_time.elapsed() > MAX_WAIT_TIME
WaitExceeded(t) == t > MAX_WAIT_TIME

EstIdle ==
    /\ est_pc = "Idle"
    /\ block_interval = 0
    /\ elapsed = 0
    /\ start_block_number = 0
    /\ target_block_number = 0
    /\ header_number = 0
    /\ polls = 0
    /\ warned = FALSE
    /\ est_result = Running

\* line 47: start_time = Instant::now(); the first reads are awaited.
EstInit ==
    /\ est_pc = "Start"
    /\ block_interval \in BlockIntervals
    /\ elapsed = 0
    /\ start_block_number = 0
    /\ target_block_number = 0
    /\ header_number = 0
    /\ polls = 0
    /\ warned = FALSE
    /\ est_result = Running

\* lines 49-55: latest_finalized_block_ref and block_header resolve after
\* `lat`; the target is start_block_number + SAMPLE_SIZE.
EstStart(lat, outcome) ==
    /\ est_pc = "Start"
    /\ elapsed' = elapsed + lat
    /\ IF outcome = "ok"
       THEN /\ est_pc' = "Poll"
            /\ start_block_number' = ChainNumber(elapsed')
            /\ target_block_number' = ChainNumber(elapsed') + SAMPLE_SIZE
            /\ UNCHANGED est_result
       ELSE /\ est_pc' = "Done"
            /\ est_result' = Err(IF outcome = "rpc_error" THEN ErrRpc
                                 ELSE ErrStartHeader)
            /\ UNCHANGED <<start_block_number, target_block_number>>
    /\ UNCHANGED <<block_interval, header_number, polls, warned>>
    /\ UNCHANGED <<minerVars, subnetVars, anVars>>

\* The average taken over the blocks actually finalized.
EstPoll_PerBlockAverage(lat, outcome) ==
    /\ est_pc = "Poll"
    /\ elapsed' = elapsed + lat
    /\ polls' = polls + 1
    /\ IF outcome # "ok"
       THEN /\ est_pc' = "Done"
            /\ est_result' = Err(IF outcome = "rpc_error" THEN ErrRpc
                                 ELSE ErrHeader)
            /\ UNCHANGED <<header_number, warned>>
       ELSE /\ header_number' = ChainNumber(elapsed')
            /\ IF header_number' < target_block_number
               THEN /\ est_pc' = "Sleep"
                    /\ UNCHANGED <<est_result, warned>>
               ELSE LET total_elapsed_time == elapsed'
                        average_block_time ==
                            total_elapsed_time
                                \div (header_number' - start_block_number)
                        estimated_block_time ==
                            Clamp(average_block_time, BASE_BLOCK_TIME,
                                  MAX_BLOCK_TIME)
                    IN  /\ est_pc' = "Done"
                        /\ warned' = (estimated_block_time = BASE_BLOCK_TIME
                                      \/ estimated_block_time = MAX_BLOCK_TIME)
                        /\ est_result' = Ok(estimated_block_time)
    /\ UNCHANGED <<block_interval, start_block_number, target_block_number>>
    /\ UNCHANGED <<minerVars, subnetVars, anVars>>

\* lines 58-65 and 74-90: the reads of the loop condition resolve after
\* `lat`.  While header.number < target the 100 ms sleep starts; otherwise
\* the loop ends and the clamped average is returned.
EstPoll(lat, outcome) ==
    /\ est_pc = "Poll"
    /\ elapsed' = elapsed + lat
    /\ polls' = polls + 1
    /\ IF outcome # "ok"
       THEN /\ est_pc' = "Done"
            /\ est_result' = Err(IF outcome = "rpc_error" THEN ErrRpc
                                 ELSE ErrHeader)
            /\ UNCHANGED <<header_number, warned>>
       ELSE /\ header_number' = ChainNumber(elapsed')
            /\ IF header_number' < target_block_number
               THEN /\ est_pc' = "Sleep"
                    /\ UNCHANGED <<est_result, warned>>
               ELSE LET total_elapsed_time == elapsed'
                        average_block_time == total_elapsed_time \div SAMPLE_SIZE
                        estimated_block_time ==
                            Clamp(average_block_time, BASE_BLOCK_TIME,
                                  MAX_BLOCK_TIME)
                    IN  /\ est_pc' = "Done"
                        /\ warned' = (estimated_block_time = BASE_BLOCK_TIME
                                      \/ estimated_block_time = MAX_BLOCK_TIME)
                        /\ est_result' = Ok(estimated_block_time)
    /\ UNCHANGED <<block_interval, start_block_number, target_block_number>>
    /\ UNCHANGED <<minerVars, subnetVars, anVars>>

\* lines 66-71: the 100 ms sleep is over; past MAX_WAIT_TIME the sampling
\* is given up.
EstSleepDone ==
    /\ est_pc = "Sleep"
    /\ elapsed' = elapsed + POLL_INTERVAL
    /\ IF WaitExceeded(elapsed')
       THEN /\ est_pc' = "Done"
            /\ est_result' = Err(ExceededMaxWaitTime)
       ELSE /\ est_pc' = "Poll"
            /\ UNCHANGED est_result
    /\ UNCHANGED <<block_interval, start_block_number, target_block_number,
                   header_number, polls, warned>>
    /\ UNCHANGED <<minerVars, subnetVars, anVars>>

EstNext ==
    \/ \E lat \in RpcLatencies, outcome \in RpcOutcomes : EstStart(lat, outcome)
    \/ \E lat \in RpcLatencies, outcome \in RpcOutcomes : EstPoll(lat, outcome)
    \/ EstSleepDone

(***************************************************************************)
(* register_subnet                                                         *)
(***************************************************************************)

\* Time an awaited submit or finalization watch may take.
SubmitLatencies == {0, 6000}

SubnetIdle ==
    /\ sn_pc = "Idle"
    /\ sn_result = "Running"
    /\ sn_coldkey_ok = TRUE
    /\ sn_connected = FALSE
    /\ monitor_spawned = FALSE
    /\ sn_block_time = 0
    /\ sn_in_flight = 0
    /\ sn_submit = "none"
    /\ sn_watch = "none"
    /\ sn_submissions = 0
    /\ sn_failures = 0
    /\ sn_since_submit = 0
    /\ sn_last_gap = -1

SubnetInit ==
    /\ sn_pc = "Connect"
    /\ sn_result = "Running"
    /\ sn_coldkey_ok \in BOOLEAN
    /\ sn_connected = FALSE
    /\ monitor_spawned = FALSE
    /\ sn_block_time = 0
    /\ sn_in_flight = 0
    /\ sn_submit = "none"
    /\ sn_watch = "none"
    /\ sn_submissions = 0
    /\ sn_failures = 0
    /\ sn_since_submit = 0
    /\ sn_last_gap = -1

attemptVars == <<sn_in_flight, sn_submit, sn_watch, sn_submissions,
                 sn_failures, sn_since_submit, sn_last_gap>>

\* `return` / `?` out of register_subnet.
SnReturn(r) ==
    /\ sn_pc' = "Returned"
    /\ sn_result' = r

\* The top of the loop: sign_and_submit_then_watch is called.
SnIssue ==
    /\ sn_pc' = "Submitting"
    /\ sn_in_flight' = sn_in_flight + 1
    /\ sn_submit' = "none"
    /\ sn_watch' = "none"
    /\ sn_submissions' = sn_submissions + 1

\* lib.rs 32-44: from_url(..).await?, the coldkey is parsed, the monitor
\* task is spawned and estimate_block_time is called.
SnConnect(ok) ==
    /\ sn_pc = "Connect"
    /\ sn_connected' = TRUE
    /\ IF ~ok THEN /\ SnReturn(ErrConnect)
                   /\ UNCHANGED <<monitor_spawned, est_pc>>
       ELSE IF ~sn_coldkey_ok THEN /\ SnReturn(ErrColdkey)
                                   /\ UNCHANGED <<monitor_spawned, est_pc>>
       ELSE /\ sn_pc' = "Estimating"
            /\ monitor_spawned' = TRUE
            /\ est_pc' = "Start"
            /\ UNCHANGED sn_result
    /\ UNCHANGED <<sn_coldkey_ok, sn_block_time, attemptVars>>
    /\ UNCHANGED <<block_interval, elapsed, start_block_number,
                   target_block_number, header_number, polls, warned,
                   est_result>>
    /\ UNCHANGED <<minerVars, anVars>>

\* lib.rs 44-53: estimate_block_time(&client).await? resolves; on Ok the
\* loop is entered and the first submission is issued.
SnEstimated ==
    /\ sn_pc = "Estimating"
    /\ est_pc = "Done"
    /\ IF est_result.status = "Err"
       THEN /\ SnReturn(est_result.err)
            /\ UNCHANGED <<sn_block_time, sn_in_flight, sn_submit,
                           sn_watch, sn_submissions>>
       ELSE /\ sn_block_time' = est_result.duration
            /\ SnIssue
            /\ UNCHANGED sn_result
    /\ UNCHANGED <<sn_coldkey_ok, sn_connected, monitor_spawned, sn_failures,
                   sn_since_submit, sn_last_gap>>
    /\ UNCHANGED <<minerVars, estVars, anVars>>

\* A failed submit propagated with `?`, as register_hotkey does.
SnSubmitResolved_Returns(lat, ok) ==
    /\ sn_pc = "Submitting"
    /\ sn_since_submit' = sn_since_submit + lat
    /\ sn_submit' = IF ok THEN "ok" ELSE "err"
    /\ IF ok
       THEN /\ sn_pc' = "AwaitingFinalization"
            /\ UNCHANGED <<sn_result, sn_in_flight, sn_failures>>
       ELSE /\ SnReturn(ErrSubmit)
            /\ sn_in_flight' = sn_in_flight - 1
            /\ sn_failures' = sn_failures + 1
    /\ UNCHANGED <<sn_coldkey_ok, sn_connected, monitor_spawned,
                   sn_block_time, sn_watch, sn_submissions,
                   sn_last_gap>>
    /\ UNCHANGED <<minerVars, estVars, anVars>>

\* lib.rs 50-54, 62: sign_and_submit_then_watch(..).await resolves.
\*   Ok(result) -> the finalization is awaited
\*   Err(e)     -> error!(), then the sleep of line 64
SnSubmitResolved(lat, ok) ==
    /\ sn_pc = "Submitting"
    /\ sn_since_submit' = sn_since_submit + lat
    /\ sn_submit' = IF ok THEN "ok" ELSE "err"
    /\ IF ok
       THEN /\ sn_pc' = "AwaitingFinalization"
            /\ UNCHANGED <<sn_in_flight, sn_failures>>
       ELSE /\ sn_pc' = "Sleep"
            /\ sn_in_flight' = sn_in_flight - 1
            /\ sn_failures' = sn_failures + 1
    /\ UNCHANGED <<sn_result, sn_coldkey_ok, sn_connected, monitor_spawned,
                   sn_block_time, sn_watch, sn_submissions,
                   sn_last_gap>>
    /\ UNCHANGED <<minerVars, estVars, anVars>>

\* lib.rs 55-61: wait_for_finalized_success().await resolves.
\*   Ok(events) -> info!(), break, Ok(()) at line 67
\*   Err(e)     -> error!(), then the sleep of line 64
SnFinalizationResolved(lat, ok) ==
    /\ sn_pc = "AwaitingFinalization"
    /\ sn_since_submit' = sn_since_submit + lat
    /\ sn_in_flight' = sn_in_flight - 1
    /\ sn_watch' = IF ok THEN "ok" ELSE "err"
    /\ IF ok
       THEN /\ SnReturn("Ok")
            /\ UNCHANGED sn_failures
       ELSE /\ sn_pc' = "Sleep"
            /\ sn_failures' = sn_failures + 1
            /\ UNCHANGED sn_result
    /\ UNCHANGED <<sn_coldkey_ok, sn_connected, monitor_spawned,
                   sn_block_time, sn_submit, sn_submissions,
                   sn_last_gap>>
    /\ UNCHANGED <<minerVars, estVars, anVars>>

\* lib.rs 64, 49-53: sleep(estimated_block_time).await is over and the
\* next iteration issues the next submission.
SnSleepDone ==
    /\ sn_pc = "Sleep"
    /\ sn_submissions < MaxAttempts
    /\ SnIssue
    /\ sn_last_gap' = sn_since_submit + sn_block_time
    /\ sn_since_submit' = 0
    /\ UNCHANGED <<sn_result, sn_coldkey_ok, sn_connected, monitor_spawned,
                   sn_block_time, sn_failures>>
    /\ UNCHANGED <<minerVars, estVars, anVars>>

SubnetNext ==
    \/ \E ok \in BOOLEAN : SnConnect(ok)
    \/ EstNext
    \/ SnEstimated
    \/ \E lat \in SubmitLatencies, ok \in BOOLEAN : SnSubmitResolved(lat, ok)
    \/ \E lat \in SubmitLatencies, ok \in BOOLEAN :
           SnFinalizationResolved(lat, ok)
    \/ SnSleepDone

(***************************************************************************)
(* subtensor_analysis: main and SubtensorAnalyzer::collect_data            *)
(***************************************************************************)
ErrAnSubscribe == "Err(subscribe_finalized)"
ErrAnBlock == "Err(block)"
ErrPending == "Err(author_pendingExtrinsics)"
ErrWeight == "Err(get_block_weight)"
ErrWrite == "Err(block_data.parquet)"

\* What blocks.next().await and the two reads that follow it may give.
BlockItems == {"block", "none", "err_block", "err_pending", "err_weight"}

\* Seconds between the arrivals of two finalized blocks.
BlockGaps == {6, 12}

\* Lengths of the pending-extrinsics list.
PendingCounts == {0, 1}

\* Block weights.
Weights == {10, 20}

collectVars == <<iteration, an_now, last_block_time, block_numbers,
                 block_times, pending_extrinsics_counts, block_weights,
                 received, stored>>

retryVars == <<retry_count, analyzer, an_attempts, an_sleeps>>

AnFresh ==
    /\ an_result = "Running"
    /\ retry_count = 0
    /\ analyzer = FALSE
    /\ an_attempts = 0
    /\ an_sleeps = 0
    /\ iteration = 0
    /\ an_now = 0
    /\ last_block_time = -1
    /\ block_numbers = <<>>
    /\ block_times = <<>>
    /\ pending_extrinsics_counts = <<>>
    /\ block_weights = <<>>
    /\ received = <<>>
    /\ stored = FALSE

AnIdle ==
    /\ an_pc = "Idle"
    /\ num_blocks = 0
    /\ AnFresh

\* main.rs 53-57: the configuration is parsed, the retry loop starts.
AnInit ==
    /\ an_pc = "New"
    /\ num_blocks \in 1..MaxNumBlocks
    /\ AnFresh

AnReturn(r) ==
    /\ an_pc' = "Returned"
    /\ an_result' = r

\* main.rs 58-70 and 77-81: SubtensorAnalyzer::new(..).await resolves.
\*   Ok(a)  -> analyzer = Some(a), break; collect_data is called on
\*             analyzer.clone().unwrap() and awaits subscribe_finalized
\*   Err(e) -> warn!, retry_count += 1, the 5 s sleep starts
AnNew(ok) ==
    /\ an_pc = "New"
    /\ an_attempts' = an_attempts + 1
    /\ IF ok
       THEN /\ analyzer' = TRUE
            /\ an_pc' = "Subscribe"
            /\ UNCHANGED retry_count
       ELSE /\ retry_count' = retry_count + 1
            /\ an_pc' = "RetrySleep"
            /\ UNCHANGED analyzer
    /\ UNCHANGED <<an_result, num_blocks, an_sleeps, collectVars>>
    /\ UNCHANGED <<minerVars, estVars, subnetVars>>

\* main.rs 69, 57 and 77-79: the 5 s sleep is over and the loop
\* condition is tested.  While retry_count < max_retries the next
\* attempt starts; otherwise the loop ends with analyzer = None and
\* analyzer.clone().unwrap() panics.
AnRetrySleepDone ==
    /\ an_pc = "RetrySleep"
    /\ an_sleeps' = an_sleeps + RETRY_SLEEP_SECS
    /\ IF retry_count < max_retries
       THEN /\ an_pc' = "New"
            /\ UNCHANGED an_result
       ELSE AnReturn("Panic")
    /\ UNCHANGED <<num_blocks, retry_count, analyzer, an_attempts,
                   collectVars>>
    /\ UNCHANGED <<minerVars, estVars, subnetVars>>

\* lib.rs 109: self.client.blocks().subscribe_finalized().await?
AnSubscribe(ok) ==
    /\ an_pc = "Subscribe"
    /\ IF ok
       THEN /\ an_pc' = "Collecting"
            /\ UNCHANGED an_result
       ELSE AnReturn(ErrAnSubscribe)
    /\ UNCHANGED <<num_blocks, retryVars, collectVars>>
    /\ UNCHANGED <<minerVars, estVars, subnetVars>>

\* lib.rs 112-139: one iteration of `for _ in 0..num_blocks`.
\*   None         -> nothing is pushed, and so for every iteration left
\*   Some(Err(e)) -> `block?` returns the error
\*   Some(Ok(b))  -> the number is pushed, then the time since the
\*                   previous block if there was one, then the pending
\*                   count and the weight, each read with `?`
AnBlock(item, gap, pending, weight) ==
    /\ an_pc = "Collecting"
    /\ iteration < num_blocks
    /\ IF item = "none"
       THEN /\ iteration' = num_blocks
            /\ UNCHANGED <<an_pc, an_result, an_now, last_block_time,
                           block_numbers, block_times,
                           pending_extrinsics_counts, block_weights,
                           received>>
       ELSE IF item = "err_block"
       THEN /\ AnReturn(ErrAnBlock)
            /\ UNCHANGED <<iteration, an_now, last_block_time, block_numbers,
                           block_times, pending_extrinsics_counts,
                           block_weights, received>>
       ELSE LET number == Len(received) + 1
                current_time == an_now + gap
            IN  /\ an_now' = current_time
                /\ received' =
                       Append(received,
                              [number |-> number,
                               arrival |-> current_time,
                               pending |-> pending,
                               weight |-> weight])
                /\ block_numbers' = Append(block_numbers, number)
                /\ block_times' =
                       IF last_block_time # -1
                       THEN Append(block_times,
                                   current_time - last_block_time)
                       ELSE block_times
                /\ last_block_time' = current_time
                /\ IF item = "err_pending"
                   THEN /\ AnReturn(ErrPending)
                        /\ UNCHANGED <<iteration, pending_extrinsics_counts,
                                       block_weights>>
                   ELSE /\ pending_extrinsics_counts' =
                               Append(pending_extrinsics_counts, pending)
                        /\ IF item = "err_weight"
                           THEN /\ AnReturn(ErrWeight)
                                /\ UNCHANGED <<iteration, block_weights>>
                           ELSE /\ block_weights' =
                                       Append(block_weights, weight)
                                /\ iteration' = iteration + 1
                                /\ UNCHANGED <<an_pc, an_result>>
    /\ UNCHANGED <<num_blocks, retryVars, stored>>
    /\ UNCHANGED <<minerVars, estVars, subnetVars>>

\* lib.rs 141-162: the four vectors are truncated to the shortest of
\* them and written as the columns of block_data.parquet.
AnFinish(ok) ==
    /\ an_pc = "Collecting"
    /\ iteration = num_blocks
    /\ LET min_length ==
               Min(Min(Len(block_times), Len(pending_extrinsics_counts)),
                   Min(Len(block_weights), Len(block_numbers)))
       IN  /\ block_times' = SubSeq(block_times, 1, min_length)
           /\ pending_extrinsics_counts' =
                  SubSeq(pending_extrinsics_counts, 1, min_length)
           /\ block_weights' = SubSeq(block_weights, 1, min_length)
           /\ block_numbers' = SubSeq(block_numbers, 1, min_length)
    /\ stored' = ok
    /\ AnReturn(IF ok THEN "Ok" ELSE ErrWrite)
    /\ UNCHANGED <<num_blocks, retryVars, iteration, an_now, last_block_time,
                   received>>
    /\ UNCHANGED <<minerVars, estVars, subnetVars>>

AnalyzerNext ==
    \/ \E ok \in BOOLEAN : AnNew(ok)
    \/ AnRetrySleepDone
    \/ \E ok \in BOOLEAN : AnSubscribe(ok)
    \/ \E item \in BlockItems, gap \in BlockGaps, pending \in PendingCounts,
          weight \in Weights : AnBlock(item, gap, pending, weight)
    \/ \E ok \in BOOLEAN : AnFinish(ok)

(***************************************************************************)
(* Specifications                                                          *)
(***************************************************************************)
Init == MinerInit /\ EstIdle /\ SubnetIdle /\ AnIdle

Next == MinerNext

Spec == Init /\ [][Next]_vars

\* estimate_block_time on its own; register_hotkey is not running.
InitEstimator ==
    /\ EstInit
    /\ MinerInit
    /\ coldkey_ok /\ hotkey_ok /\ max_cost = 0
    /\ SubnetIdle
    /\ AnIdle

\* register_hotkey with valid seeds in a process that may receive a
\* shutdown signal.
InitShutdown ==
    /\ MinerInit
    /\ coldkey_ok /\ hotkey_ok /\ max_cost = 0
    /\ EstIdle
    /\ SubnetIdle
    /\ AnIdle

NextShutdown ==
    \/ MinerNext
    \/ \E outcome \in {"ignored", "killed"} : ShutdownSignal(outcome)

SpecShutdown == InitShutdown /\ [][NextShutdown]_vars

SpecEstimator == InitEstimator /\ [][EstNext]_vars

\* estimate_block_time is polled by the runtime until it returns: every
\* await in it is an RPC read that returns or a 100 ms sleep that ends.
SpecEstimatorLive == SpecEstimator /\ WF_vars(EstNext)

\* register_subnet with its call of estimate_block_time; the chain's
\* block interval is drawn at the start.
InitSubnet ==
    /\ SubnetInit
    /\ est_pc = "Idle"
    /\ block_interval \in BlockIntervals
    /\ elapsed = 0
    /\ start_block_number = 0
    /\ target_block_number = 0
    /\ header_number = 0
    /\ polls = 0
    /\ warned = FALSE
    /\ est_result = Running
    /\ MinerInit
    /\ coldkey_ok /\ hotkey_ok /\ max_cost = 0
    /\ AnIdle

SpecSubnet == InitSubnet /\ [][SubnetNext]_vars

\* The analyzer binary up to the return of collect_data.
InitAnalyzer ==
    /\ AnInit
    /\ MinerInit
    /\ coldkey_ok /\ hotkey_ok /\ max_cost = 0
    /\ EstIdle
    /\ SubnetIdle

SpecAnalyzer == InitAnalyzer /\ [][AnalyzerNext]_vars

(***************************************************************************)
(* Claims: register_hotkey                                                 *)
(***************************************************************************)

\* C1: register_hotkey returns Ok only if a submission was made and the
\* finalization watch of the last one resolved successfully.
C1_OkOnlyAfterFinalizedSubmission ==
    (pc = "Returned" /\ result = "Ok") => (submissions >= 1 /\ watch = "ok")

\* C2: when the finalized subscription ends before any submission finalized
\* successfully, register_hotkey returns a fatal error, never success.
C2_StreamEndIsFatal ==
    stream_end_seen => (pc = "Returned" /\ result \notin {"Ok", "Running"})

\* C3: at most one submission is in flight in every reachable state; a new
\* submission is issued only when no earlier one is unresolved.
C3_NoOverlappingSubmissions ==
    /\ in_flight <= 1
    /\ pc \in {"Submitting", "AwaitingFinalization"} <=> in_flight = 1
    /\ watch = "pending" <=> pc = "AwaitingFinalization"

\* C3 witness: a second submission is being watched after the first one's
\* watch resolved.
C3_Witness ==
    submissions = 2 /\ pc = "AwaitingFinalization" /\ in_flight = 1

\* C4: two consecutive submissions are issued at least 12 s apart.
C4_SubmissionSpacing ==
    last_gap # -1 => last_gap >= RATE_LIMIT_SECS

\* C5: no submission is issued in a tick whose cost read returned more than
\* max_cost: while a submission of the tick is being made or watched, the
\* cost read in that tick is at most max_cost.
C5_CostGate ==
    /\ pc \in {"Submitting", "AwaitingFinalization"} =>
           (recycle_cost # -1 /\ recycle_cost <= max_cost)
    /\ recycle_cost > max_cost => (pc = "CostSleep" /\ in_flight = 0)

\* C5 witness: a tick read a cost above max_cost and is skipping the block.
C5_Witness ==
    pc = "CostSleep" /\ recycle_cost > max_cost /\ submissions = 1

\* C9: a failed cost read (transport or decode failure) does not make
\* register_hotkey return.
C9_CostReadFailureIsTransient ==
    result \notin {ErrCostRpc, ErrCostDecode}

\* C10: a failure of the sign-and-submit step (or of the spawned task)
\* does not make register_hotkey return.
C10_SubmitFailureIsTransient ==
    result \notin {ErrSubmit, ErrJoin}

(***************************************************************************)
(* Claims: estimate_block_time                                             *)
(***************************************************************************)

\* C6: every duration estimate_block_time returns lies in [12 s, 60 s].
C6_EstimateClamped ==
    est_result.status = "Ok" =>
        (BASE_BLOCK_TIME <= est_result.duration
         /\ est_result.duration <= MAX_BLOCK_TIME)

\* C6 witnesses: an average above 60 s was measured and a duration returned.
C6_Witness ==
    est_result.status = "Ok" /\ elapsed \div SAMPLE_SIZE > MAX_BLOCK_TIME

\* C7: a measured average below 12 s yields exactly 12 s, a block stream
\* slower than 60 s per block yields exactly 60 s; both with the clamp
\* warning and without an error.
C7_EstimatorBounds ==
    est_pc = "Done" =>
        /\ (est_result.status = "Ok"
            /\ elapsed \div SAMPLE_SIZE < BASE_BLOCK_TIME)
               => (est_result.duration = BASE_BLOCK_TIME /\ warned)
        /\ (block_interval > MAX_BLOCK_TIME /\ est_result.err \notin
                {ErrRpc, ErrStartHeader, ErrHeader})
               => (est_result = Ok(MAX_BLOCK_TIME) /\ warned)

\* C8: while the target block is not reached the estimator gives up with
\* ExceededMaxWaitTime at the first poll boundary (end of a 100 ms sleep)
\* after 120 s have elapsed: it never polls again past MAX_WAIT_TIME,
\* reports the timeout only past MAX_WAIT_TIME, and returns a duration
\* only once the target was observed.
C8_MaxWaitTimeout ==
    /\ (est_pc = "Poll" /\ polls > 0) => elapsed <= MAX_WAIT_TIME
    /\ est_result = Err(ExceededMaxWaitTime) =>
           (elapsed > MAX_WAIT_TIME /\ header_number < target_block_number)
    /\ (est_pc = "Done" /\ header_number < target_block_number) =>
           est_result.status = "Err"
    /\ (est_pc = "Done" /\ block_interval = 0 /\ elapsed > MAX_WAIT_TIME
           /\ est_result.err \notin {ErrRpc, ErrStartHeader, ErrHeader}) =>
           est_result = Err(ExceededMaxWaitTime)

\* C8 witness: finalization never advanced and the estimator timed out
\* at the first poll boundary past 120 s.
C8_Witness ==
    /\ block_interval = 0
    /\ est_result = Err(ExceededMaxWaitTime)
    /\ elapsed = MAX_WAIT_TIME + POLL_INTERVAL

(***************************************************************************)
(* Claims: register_hotkey, continued                                      *)
(***************************************************************************)

\* C11: from the moment a finalization watch resolves with an error until
\* the loop awaits the next head, register_hotkey does not terminate: it
\* goes through the backoff and on to the next head.
C11_WatchErrorIsTransient ==
    [][((pc = "AwaitingFinalization" /\ watch' = "err")
            \/ pc \in {"RateLimit", "RateLimitSleep"})
        => pc' # "Returned"]_vars

\* C13: with a seed that fails to parse register_hotkey fails with the
\* invalid-key error, and the chain endpoint has not been contacted.
C13_BadKeyFailsBeforeAnyRpc ==
    (pc = "Returned" /\ (~coldkey_ok \/ ~hotkey_ok)) =>
        (result \in {ErrColdkey, ErrHotkey} /\ ~connected)

\* C15: once a finalization watch resolved successfully register_hotkey
\* has returned Ok with nothing in flight and no sleep pending; when the
\* first tick's submission finalized, exactly one submission was issued.
C15_SuccessEndsTheLoop ==
    /\ watch = "ok" =>
           (pc = "Returned" /\ result = "Ok" /\ in_flight = 0
            /\ sleep_left = 0 /\ ~last_attempt_guard)
    /\ (watch = "ok" /\ loops = 1) => submissions = 1

\* C15 witness: the happy path, one head, one submission, finalized.
C15_Witness ==
    watch = "ok" /\ loops = 1 /\ submissions = 1 /\ result = "Ok"

\* C18: after a failed finalization the loop goes back to awaiting the
\* next head only once last_attempt is at least 12 s old, and sets
\* last_attempt to the current time as it does.
C18_BackoffSpacing ==
    [][(pc \in {"AwaitingFinalization", "RateLimit", "RateLimitSleep"}
            /\ pc' = "AwaitingHead")
        => (last_attempt_elapsed >= RATE_LIMIT_SECS
            /\ last_attempt_elapsed' = 0)]_vars

\* C18 witness: a failed finalization was followed by a backoff that
\* slept the remainder, and last_attempt has just been set.
C18_Witness ==
    /\ pc = "AwaitingHead"
    /\ watch = "err"
    /\ last_attempt_elapsed = 0
    /\ since_submit = RATE_LIMIT_SECS

\* C19: register_hotkey is never suspended in a sleep or an I/O await
\* while a guard of its loop state is alive.
C19_NoLockHeldAcrossAwait ==
    pc \in {"AwaitingHead", "CheckingCost", "CostSleep", "Submitting",
            "AwaitingFinalization", "RateLimitSleep"} => ~last_attempt_guard

\* C12: when get_recycle_cost found no Burn entry, register_hotkey has
\* returned that error: no submission was issued in that tick (the cost
\* of the tick was never accepted, nothing is in flight, every submission
\* belongs to an earlier tick) and nothing more is consumed.
C12_AbsentBurnIsFatal ==
    last_cost_err = ErrCostAbsent =>
        /\ pc = "Returned"
        /\ result = ErrCostAbsent
        /\ in_flight = 0
        /\ cost_tick < loops
        /\ submissions + skips = loops - 1

\* C12 witness: the Burn entry was absent on the second head, after a
\* tick that was skipped by the cost gate.
C12_Witness ==
    last_cost_err = ErrCostAbsent /\ result = ErrCostAbsent /\ loops = 2
        /\ skips = 1

\* C14: while every completed tick was ended by the cost gate there is
\* no submission; when the one tick that was not skipped saw its
\* submission finalized, exactly one submission was issued and
\* register_hotkey returned Ok; a tick is skipped only for a cost above
\* max_cost, never for a cost equal to it.
C14_SkipsThenOneSubmission ==
    /\ skips = loops => submissions = 0
    /\ (skips = loops - 1 /\ watch = "ok") =>
           (submissions = 1 /\ pc = "Returned" /\ result = "Ok")
    /\ pc = "CostSleep" => recycle_cost > max_cost

\* C14 witness: two skipped ticks, then a submission that finalized.
C14_Witness ==
    skips = 2 /\ loops = 3 /\ submissions = 1 /\ watch = "ok"
        /\ result = "Ok"

C20_TickOrder ==
    /\ cost_tick <= loops
    /\ pc = "CheckingCost" => (cost_tick < loops /\ recycle_cost = -1)
    /\ pc \in {"Submitting", "AwaitingFinalization"} =>
           /\ cost_tick = loops
           /\ recycle_cost # -1
           /\ ~ExceedsMaxCost(recycle_cost, max_cost)
    /\ pc \in {"AwaitingHead", "CheckingCost"} =>
           (in_flight = 0 /\ sleep_left = 0)

\* C20 witness: a second tick's submission, after a skipped first tick.
C20_Witness ==
    pc = "AwaitingFinalization" /\ loops = 2 /\ cost_tick = 2 /\ skips = 1

\* C21: *loops is 0 until the first head, goes up by exactly one when a
\* head is received and changes in no other step; it equals the number
\* of heads consumed and is at least the number of submissions.
C21_IterationCounter ==
    [][/\ pc \in {"Connect", "Subscribe"} => loops = 0
       /\ loops = Len(consumed) /\ loops' = Len(consumed')
       /\ loops >= submissions /\ loops' >= submissions'
       /\ \/ loops' = loops
          \/ /\ loops' = loops + 1
             /\ pc = "AwaitingHead"
             /\ pc' = "CheckingCost"]_vars

\* C21 witness: three heads were received, two of them led to a
\* submission.
C21_Witness ==
    loops = 3 /\ Len(consumed) = 3 /\ submissions = 2

\* C25: whenever the backoff remainder 12 s - last_attempt.elapsed() may
\* be computed it is not negative, and the subtraction never panics.
C25_RemainderNotNegative ==
    /\ pc = "RateLimit" => RATE_LIMIT_SECS - last_attempt_elapsed >= 0
    /\ result # "Panic"

\* C26: last_attempt is set anew only at the end of the backoff after a
\* failed finalization; a tick skipped by the cost gate issues no
\* submission, sleeps 1 s and goes on to the next head with last_attempt
\* as it was; issuing a submission leaves last_attempt as it was.
C26_LastAttemptFrame ==
    [][/\ last_attempt_elapsed' < last_attempt_elapsed =>
              /\ watch' = "err"
              /\ pc \in {"AwaitingFinalization", "RateLimitSleep"}
              /\ pc' = "AwaitingHead"
       /\ (pc = "CheckingCost" /\ pc' = "CostSleep") =>
              /\ last_attempt_elapsed' = last_attempt_elapsed
              /\ submissions' = submissions
              /\ sleep_left' = COST_SKIP_SECS
       /\ (pc = "CostSleep" /\ pc' # "CostSleep") =>
              /\ pc' = "AwaitingHead"
              /\ last_attempt_elapsed' = last_attempt_elapsed
              /\ submissions' = submissions
       /\ submissions' # submissions =>
              last_attempt_elapsed' = last_attempt_elapsed]_vars

\* C26 witness: a tick was skipped and a later one submitted while
\* last_attempt kept its age from the start of the loop.
C26_Witness ==
    /\ pc = "Submitting"
    /\ skips = 2
    /\ submissions = 1
    /\ last_attempt_elapsed >= 2 * COST_SKIP_SECS

\* C22: once a shutdown signal has reached the process, register_hotkey
\* has ended with the status Cancelled: it does not go on waiting, and
\* reports neither success nor a fatal error.
C22_CancellationHonored ==
    shutdown # "none" => (pc = "Returned" /\ result = "Cancelled")

(***************************************************************************)
(* Claims: estimate_block_time, continued                                  *)
(***************************************************************************)

\* C23: estimate_block_time returns in the end; a duration is returned
\* only when a poll saw the target block number, and it is the clamped
\* elapsed time / 10 however many blocks were finalized; a poll that
\* follows a sleep never starts more than 120 s after the start.
C23_EstimatorTerminates ==
    /\ <>(est_pc = "Done")
    /\ [](est_pc = "Done" => est_result.status \in {"Ok", "Err"})
    /\ [](est_result.status = "Ok" =>
              /\ polls > 0
              /\ header_number >= start_block_number + SAMPLE_SIZE
              /\ est_result.duration =
                     Clamp(elapsed \div SAMPLE_SIZE, BASE_BLOCK_TIME,
                           MAX_BLOCK_TIME))
    /\ []((est_pc = "Poll" /\ polls > 0) => elapsed <= MAX_WAIT_TIME)

\* C23 witness: a duration was returned after a poll that found far more
\* than ten new blocks.
C23_Witness ==
    /\ est_result.status = "Ok"
    /\ header_number > start_block_number + 2 * SAMPLE_SIZE
    /\ est_result.duration > BASE_BLOCK_TIME

(***************************************************************************)
(* Claims: register_subnet                                                 *)
(***************************************************************************)

\* C16: register_subnet returns Ok only once a finalization watch
\* resolved successfully; a failed submit or a failed finalization never
\* makes it return: it leads to the sleep and from there to the next
\* submission, so that outside the sleep there is one more submission
\* than failed attempts.
C16_RetriesUntilFinalized ==
    /\ sn_result = "Ok" => (sn_pc = "Returned" /\ sn_watch = "ok")
    /\ (sn_pc = "Returned" /\ sn_submissions > 0) => sn_result = "Ok"
    /\ (sn_submit = "err" \/ sn_watch = "err") => sn_pc = "Sleep"
    /\ sn_pc = "Sleep" => sn_submissions = sn_failures
    /\ (sn_submissions > 0 /\ sn_pc # "Sleep") =>
           sn_submissions = sn_failures + 1

\* C16 witness: a failed submit and a failed finalization were each
\* followed by another attempt, and the third attempt was finalized.
C16_Witness ==
    sn_result = "Ok" /\ sn_submissions = 3 /\ sn_failures = 2
        /\ sn_watch = "ok"

\* C24: register_subnet issues a submission only after
\* estimate_block_time returned Ok, and none after it returned an error;
\* at most one submission is unresolved; the time between two
\* consecutive submissions is at least the estimated block time, which
\* is at least 12 s.
C24_SubnetSpacing ==
    /\ sn_submissions > 0 =>
           /\ est_pc = "Done"
           /\ est_result.status = "Ok"
           /\ sn_block_time = est_result.duration
    /\ est_result.status = "Err" => sn_submissions = 0
    /\ (sn_pc = "Returned" /\ est_result.status = "Err") =>
           sn_result = est_result.err
    /\ sn_in_flight <= 1
    /\ sn_last_gap # -1 =>
           (sn_last_gap >= sn_block_time /\ sn_last_gap >= BASE_BLOCK_TIME)

\* C24 witness: a second submission was issued exactly 12 s after the
\* first one, which had failed at once.
C24_Witness ==
    /\ sn_submissions = 2
    /\ sn_failures = 1
    /\ sn_last_gap = BASE_BLOCK_TIME

(***************************************************************************)
(* Claims: subtensor_analysis                                              *)
(***************************************************************************)

\* C27: main calls SubtensorAnalyzer::new at most 5 times, has slept 5 s
\* for each failed call, makes no call after a successful one, starts
\* collect_data only with an analyzer, and does not panic: when all calls
\* failed it returns an error.
C27_RetryThenErrorReturn ==
    /\ an_attempts <= max_retries
    /\ an_pc # "RetrySleep" => an_sleeps = RETRY_SLEEP_SECS * retry_count
    /\ analyzer => an_attempts = retry_count + 1
    /\ an_pc \in {"Subscribe", "Collecting"} => analyzer
    /\ an_result # "Panic"
    /\ (an_pc = "Returned" /\ ~analyzer) =>
           an_result \notin {"Ok", "Running", "Panic"}

\* C28: when collect_data has stored its columns after receiving at
\* least one block, the four columns are equally long, and each row
\* holds the number, the pending count and the weight of one received
\* block with the time from the previous block's arrival to its own.
C28_RowsAligned ==
    (stored /\ Len(received) >= 1) =>
        /\ Len(block_times) = Len(block_numbers)
        /\ Len(pending_extrinsics_counts) = Len(block_numbers)
        /\ Len(block_weights) = Len(block_numbers)
        /\ \A i \in 1..Len(block_numbers) :
               \E j \in 2..Len(received) :
                   /\ block_numbers[i] = received[j].number
                   /\ pending_extrinsics_counts[i] = received[j].pending
                   /\ block_weights[i] = received[j].weight
                   /\ block_times[i] =
                          received[j].arrival - received[j - 1].arrival

====
